---- MODULE Spec2Model ----
(***************************************************************************)
(* A model of the MyoIMUGestureController library: the EMG smoothing and   *)
(* sync handler, the lock/unlock state machine of handleIMUData, the       *)
(* gesture cache and the gesture classifier processCacheData.              *)
(*                                                                         *)
(* Numbers.  The source computes in 32-bit floats.  The model computes in  *)
(* fixed point: a float v is the integer round(v * FP), FP = 1000, so an   *)
(* angle is held in milliradians.  A product of two such numbers is        *)
(* rescaled by FP (Mul); a square that the source only compares or sums is *)
(* kept at scale FP*FP.  NaN and infinity, which the source produces by    *)
(* dividing by zero, are not numbers of the model: each place where the    *)
(* source can produce one is a case split that gives the outcome IEEE 754  *)
(* arithmetic has there (every ordered comparison with NaN is false).      *)
(***************************************************************************)
EXTENDS Integers, Sequences, FiniteSets, TLC

VARIABLES
  \* --- the clock of the host (millis()) ---------------------------------
  now,
  \* --- static members of MyoIMUGestureController ------------------------
  inverseInitMatrix, refresh_init,
  emgCache, emgSum, emgSync, isEMGSynced,
  lock_toggle, locked, timeConnected,
  \* --- globals of gestureAnalysis.cpp -----------------------------------
  gesture_cache, gesture_cache_offset, gesture_roll_angle,
  \* --- the environment: position on the stream of orientation samples ---
  imuPos,
  \* --- what the last handler invocation did (observation only) ----------
  op,             \* "init", "tick", "emg" or "imu"
  evaluated,      \* the invocation passed the guard of line 100
  belowThreshold, \* the invocation took the branch of line 102
  lock_calls,     \* the arguments of its on_lock_change calls, in order
  gesture_calls,  \* the arguments of its on_gesture calls, in order
  classified,     \* what processCacheData returned in it, or "none"
  classifiedPts,  \* the points processCacheData analysed in it
  discarded,      \* it discarded an overflowed recording (line 107)
  pushed,         \* the <<x, y, roll>> it passed to updateGestureCache, or <<>>
  vibrations,     \* the arguments of its bridge->vibrate calls, in order
  \* --- history (observation only) ---------------------------------------
  lock_first,     \* <<b>>: the first on_lock_change call ever made was (b)
  lock_log,       \* the arguments of the last two on_lock_change calls
  gest_since_lock,   \* on_gesture calls since the last on_lock_change call
  last_eval,         \* <<b>>: the latest evaluation found the ratio below (b)
  held_since_toggle, \* a ratio at or above the threshold was seen since the
                     \* last toggle of locked (or since the start)
  pushes_since_empty, \* updateGestureCache calls since the cursor was last zeroed
  since_unlock,   \* the samples handled since the latest unlock toggle
  e2e,            \* the progress of the run held, released, held, released, held
  unlocked_run,   \* the latest evaluations in a row that found the ratio below
                  \* the threshold and ended with locked false
  emg_first,      \* <<t>>: the first handleEMGData invocation read the clock t
                  \* (kept while the sync window is open)
  emg_max,        \* the greatest emgSum of an invocation inside the sync window
  emg_log,        \* the latest EMG vectors handled, newest first, at most
                  \* EMG_CACHE_SIZE of them
  captured,       \* the last invocation overwrote inverseInitMatrix (line 91)
  ref_fresh,      \* inverseInitMatrix was last overwritten by the invocation
                  \* that made the latest toggle of locked to false, or later
  \* --- the functions applied on their own ------------------------------
  pc,             \* a cache handed to processCacheData and what it returned
  mx              \* a matrix handed to inverse_matrix and what it returned

progVars == <<now, inverseInitMatrix, refresh_init, emgCache, emgSum, emgSync,
              isEMGSynced, lock_toggle, locked, timeConnected, gesture_cache,
              gesture_cache_offset, gesture_roll_angle, imuPos>>
obsVars  == <<op, evaluated, belowThreshold, lock_calls, gesture_calls,
              classified, classifiedPts, discarded, pushed, vibrations>>
histVars == <<lock_first, lock_log, gest_since_lock, last_eval, held_since_toggle,
              pushes_since_empty, since_unlock, e2e, unlocked_run>>
syncVars == <<emg_first, emg_max, emg_log>>
refVars  == <<captured, ref_fresh>>
fnVars   == <<pc, mx>>

(***************************************************************************)
(* Fixed-point arithmetic                                                  *)
(***************************************************************************)
FP == 10 * 100

Abs(a) == IF a < 0 THEN -a ELSE a
Sgn(a) == IF a < 0 THEN -1 ELSE 1

\* a / b rounded to the nearest integer (b # 0), as a float division rounds
RDiv(a, b) == Sgn(a) * Sgn(b) * ((2 * Abs(a) + Abs(b)) \div (2 * Abs(b)))

\* the product of two fixed-point numbers
Mul(a, b) == RDiv(a * b, FP)

Min2(a, b) == IF a < b THEN a ELSE b
Max2(a, b) == IF a > b THEN a ELSE b

\* clip(n, lower, upper) of gestureAnalysis.cpp and matrix.cpp
clip(n, lower, upper) == Max2(lower, Min2(n, upper))

\* sqr(a) at scale FP*FP
sqr(a) == a * a

\* floor of the square root of n >= 0, by bisection
RECURSIVE SqrtBisect(_, _, _)
SqrtBisect(n, lo, hi) ==
  IF hi - lo <= 1 THEN lo
  ELSE LET mid == (lo + hi) \div 2
       IN  IF mid * mid <= n THEN SqrtBisect(n, mid, hi)
                             ELSE SqrtBisect(n, lo, mid)

\* sqrt of a number at scale FP*FP, the result at scale FP
Sqrt(n) == IF n <= 0 THEN 0
           ELSE IF n < 4096 * 4096 THEN SqrtBisect(n, 0, 4096)
           ELSE SqrtBisect(n, 4096, 46341)

\* asin(k * 0.05) in milliradians, k = 0..20; the last knot is the largest
\* argument the source lets through, asin(.99999)
AsinKnots == <<0, 50, 100, 151, 201, 253, 305, 358, 412, 467, 524,
               582, 644, 708, 775, 848, 927, 1016, 1120, 1253, 1566>>
AsinStep == 5 * 10

\* asin of a fixed-point number in [-FP, FP]: linear between the knots
asin(v) ==
  LET a  == Abs(v)
      k  == a \div AsinStep
      lo == AsinKnots[k + 1]
      hi == AsinKnots[Min2(k + 1, 20) + 1]
  IN  Sgn(v) * (lo + RDiv((hi - lo) * (a - k * AsinStep), AsinStep))

(***************************************************************************)
(* matrix.cpp: a Matrix33 is a 3-tuple of rows; At(m, i, j) is m[i][j]     *)
(***************************************************************************)
ZERO_MATRIX == <<<<0, 0, 0>>, <<0, 0, 0>>, <<0, 0, 0>>>>

At(m, i, j) == m[i + 1][j + 1]

\* the scale of the raw int16 quaternion components (MyoBridge, myohw.h)
MYOHW_ORIENTATION_SCALE == 16384

\* multiply_matrix(a, b, result)
multiply_matrix(a, b) ==
  [i \in 1..3 |-> [j \in 1..3 |->
     Mul(a[i][1], b[1][j]) + Mul(a[i][2], b[2][j]) + Mul(a[i][3], b[3][j])]]

\* the determinant inverse_matrix computes first
determinant(in) ==
    Mul(At(in,0,0), Mul(At(in,1,1), At(in,2,2)) - Mul(At(in,2,1), At(in,1,2)))
  - Mul(At(in,0,1), Mul(At(in,1,0), At(in,2,2)) - Mul(At(in,1,2), At(in,2,0)))
  + Mul(At(in,0,2), Mul(At(in,1,0), At(in,2,1)) - Mul(At(in,1,1), At(in,2,0)))

\* variant of inverse_matrix: the cofactors are not transposed
inverse_matrixCofactors(in) ==
  LET invdet == RDiv(FP * FP, determinant(in))
      C(a, b, c, d) == Mul(Mul(a, b) - Mul(c, d), invdet)
  IN  << << C(At(in,1,1), At(in,2,2), At(in,2,1), At(in,1,2)),
            C(At(in,1,2), At(in,2,0), At(in,1,0), At(in,2,2)),
            C(At(in,1,0), At(in,2,1), At(in,2,0), At(in,1,1)) >>,
         << C(At(in,0,2), At(in,2,1), At(in,0,1), At(in,2,2)),
            C(At(in,0,0), At(in,2,2), At(in,0,2), At(in,2,0)),
            C(At(in,2,0), At(in,0,1), At(in,0,0), At(in,2,1)) >>,
         << C(At(in,0,1), At(in,1,2), At(in,0,2), At(in,1,1)),
            C(At(in,1,0), At(in,0,2), At(in,0,0), At(in,1,2)),
            C(At(in,0,0), At(in,1,1), At(in,1,0), At(in,0,1)) >> >>

\* inverse_matrix(in, out), for a determinant that is not zero
inverse_matrix(in) ==
  LET invdet == RDiv(FP * FP, determinant(in))
      C(a, b, c, d) == Mul(Mul(a, b) - Mul(c, d), invdet)
  IN  << << C(At(in,1,1), At(in,2,2), At(in,2,1), At(in,1,2)),
            C(At(in,0,2), At(in,2,1), At(in,0,1), At(in,2,2)),
            C(At(in,0,1), At(in,1,2), At(in,0,2), At(in,1,1)) >>,
         << C(At(in,1,2), At(in,2,0), At(in,1,0), At(in,2,2)),
            C(At(in,0,0), At(in,2,2), At(in,0,2), At(in,2,0)),
            C(At(in,1,0), At(in,0,2), At(in,0,0), At(in,1,2)) >>,
         << C(At(in,1,0), At(in,2,1), At(in,2,0), At(in,1,1)),
            C(At(in,2,0), At(in,0,1), At(in,0,0), At(in,2,1)),
            C(At(in,0,0), At(in,1,1), At(in,1,0), At(in,0,1)) >> >>

\* unit_quaternion_to_matrix(matrix, quat): quat is the tuple the source
\* indexes quat[0..3]; the clip bounds +-.999999 are +-1 at this resolution
unit_quaternion_to_matrix(quat) ==
  LET comp(k) == clip(RDiv(quat[k + 1] * FP, MYOHW_ORIENTATION_SCALE), -FP, FP)
      x == comp(0)
      y == comp(1)
      z == comp(2)
      w == comp(3)
  IN  << << FP - 2 * Mul(y, y) - 2 * Mul(z, z),
            2 * Mul(x, y) - 2 * Mul(w, z),
            2 * Mul(x, z) + 2 * Mul(w, y) >>,
         << 2 * Mul(x, y) + 2 * Mul(w, z),
            FP - 2 * Mul(x, x) - 2 * Mul(z, z),
            2 * Mul(y, z) - 2 * Mul(w, x) >>,
         << 2 * Mul(x, z) - 2 * Mul(w, y),
            2 * Mul(y, z) + 2 * Mul(w, x),
            FP - 2 * Mul(x, x) - 2 * Mul(y, y) >> >>

(***************************************************************************)
(* gestureAnalysis.cpp.  gesture_cache is the tuple of the cells below the *)
(* write cursor gesture_cache_offset, cell i of the source at position     *)
(* i + 1.  The cells at and above the cursor are dead: no statement reads  *)
(* gesture_cache[i], i >= gesture_cache_offset, before it is written       *)
(* again, so the model does not carry them.                                *)
(***************************************************************************)
GESTURE_CACHE_SIZE == 128
STRAIGHT_MAX_RELATION == 500
STRAIGHT_MIN_DISTANCE == 300
Y_DEVIATION_CORRECTION == 1300
GESTURE_CIRCLE_SAMPLES == 10
CIRCLE_MIN_DIAMETER == 650
CIRCLE_MAX_DEVIATION == 300
MAX_ENDS_DISCANCE == 400
ROTATION_MAX_VARIANCE == 150
\* PI/6
ROTATION_MIN_ANGLE == 524

GestureType == {"ARM_UP", "ARM_DOWN", "ARM_LEFT", "ARM_RIGHT", "ARM_CIRCLE_CW",
                "ARM_CIRCLE_CCW", "ARM_ROTATE_CW", "ARM_ROTATE_CCW", "ARM_UNKNOWN"}

\* resetGestureCache(): the new <<gesture_cache, gesture_cache_offset, gesture_roll_angle>>
resetGestureCache == <<<<>>, 0, 0>>

\* gestureBufferFull()
gestureBufferFull(offset) == offset = GESTURE_CACHE_SIZE

\* variant of updateGestureCache: the point is stored whatever the cursor
updateGestureCacheUnguarded(cache, x, y, roll_angle) ==
  << cache[1] \o << asin(clip(x, -FP, FP)), asin(clip(y, -FP, FP)) >>,
     cache[2] + 2, roll_angle >>

\* variant of updateGestureCache: a full cache ignores the call altogether
updateGestureCacheIgnoredWhenFull(cache, x, y, roll_angle) ==
  IF cache[2] < GESTURE_CACHE_SIZE
  THEN << cache[1] \o << asin(clip(x, -FP, FP)), asin(clip(y, -FP, FP)) >>,
          cache[2] + 2, roll_angle >>
  ELSE cache

\* updateGestureCache(x, y, roll_angle) on a cache <<cells, offset, roll>>
updateGestureCache(cache, x, y, roll_angle) ==
  IF cache[2] < GESTURE_CACHE_SIZE
  THEN << cache[1] \o << asin(clip(x, -FP, FP)), asin(clip(y, -FP, FP)) >>,
          cache[2] + 2, roll_angle >>
  ELSE << cache[1], cache[2], roll_angle >>

getSqrPointDist(x1, y1, x2, y2) == sqr(x1 - x2) + sqr(y1 - y2)

\* the sum of the entries lo..hi of s (by halves, to keep the evaluation shallow)
RECURSIVE SumRange(_, _, _)
SumRange(s, lo, hi) ==
  IF lo > hi THEN 0
  ELSE IF lo = hi THEN s[lo]
  ELSE LET mid == (lo + hi) \div 2
       IN  SumRange(s, lo, mid) + SumRange(s, mid + 1, hi)

\* the sum of the first n entries of s
SumTo(s, n) == SumRange(s, 1, n)

\* <<v[k], k>> for the first k in lo..hi at which v is greatest (lo <= hi)
RECURSIVE FirstMax(_, _, _)
FirstMax(v, lo, hi) ==
  IF lo = hi THEN <<v[lo], lo>>
  ELSE LET mid == (lo + hi) \div 2
           l   == FirstMax(v, lo, mid)
           r   == FirstMax(v, mid + 1, hi)
       IN  IF r[1] > l[1] THEN r ELSE l

\* the loop "if (v[i] > best) { best = v[i]; index = i; }" over i = 0..n-1,
\* started with best = init and index = 0: it ends at the first greatest
\* entry if that is greater than init.  The result is <<best, index>>.
TrackMax(v, n, init) ==
  IF n = 0 THEN <<init, 0>>
  ELSE LET m == FirstMax(v, 1, n)
       IN  IF m[1] > init THEN <<m[1], m[2] - 1>> ELSE <<init, 0>>

\* the same loop with "<"
TrackMin(v, n, init) ==
  IF n = 0 THEN <<init, 0>>
  ELSE LET m == FirstMax([i \in 1..n |-> -v[i]], 1, n)
       IN  IF -m[1] < init THEN <<-m[1], m[2] - 1>> ELSE <<init, 0>>

\* the x and y coordinates of the num_points cached points, point i at i + 1
PointsX(cells, num_points) == [i \in 1..num_points |-> cells[2 * i - 1]]
PointsY(cells, num_points) == [i \in 1..num_points |-> cells[2 * i]]

\* variant of Clockwise: the opposite direction
ClockwiseReversed(x_min_index, y_max_index, x_max_index) ==
  ~ ( \/ (x_min_index < y_max_index) /\ (y_max_index < x_max_index)
      \/ (y_max_index < x_max_index) /\ (x_max_index < x_min_index)
      \/ (x_max_index < x_min_index) /\ (x_min_index < y_max_index) )

\* lines 188-199: the direction, from the order of the three indices
Clockwise(x_min_index, y_max_index, x_max_index) ==
  \/ (x_min_index < y_max_index) /\ (y_max_index < x_max_index)
  \/ (y_max_index < x_max_index) /\ (x_max_index < x_min_index)
  \/ (x_max_index < x_min_index) /\ (x_min_index < y_max_index)

\* lines 137-179: <<x_min_index, y_max_index, x_max_index>> after the scan
\* of the num_points cached points; x_max and y_max start at 0, x_min at 1000
ExtremeIndices(cells, num_points) ==
  LET X == PointsX(cells, num_points)
      Y == PointsY(cells, num_points)
  IN  << TrackMin(X, num_points, 1000 * FP)[2],
         TrackMax(Y, num_points, 0)[2],
         TrackMax(X, num_points, 0)[2] >>

\* the circle test (lines 99-209): "ARM_CIRCLE_CW", "ARM_CIRCLE_CCW", or
\* "none" when the test does not accept
CircleTest(cells, num_points) ==
  LET index_offset == num_points \div GESTURE_CIRCLE_SAMPLES
      X == PointsX(cells, num_points)
      Y == PointsY(cells, num_points)
  IN
  IF index_offset < 1 THEN "none"
  ELSE
    LET \* the sample points, sample j at position j + 1
        sx == [j \in 1..GESTURE_CIRCLE_SAMPLES |-> cells[2 * (j - 1) * index_offset + 1]]
        sy == [j \in 1..GESTURE_CIRCLE_SAMPLES |-> cells[2 * (j - 1) * index_offset + 2]]
        \* the greatest distance from sample point j to a cached point: the
        \* root of the greatest squared distance (sqrt is monotone)
        sample_point_diameters ==
          [j \in 1..GESTURE_CIRCLE_SAMPLES |->
             Sqrt(TrackMax([i \in 1..num_points |->
                              getSqrPointDist(sx[j], sy[j], X[i], Y[i])],
                           num_points, 0)[1])]
        center_x == RDiv(SumTo(sx, GESTURE_CIRCLE_SAMPLES), GESTURE_CIRCLE_SAMPLES)
        center_y == RDiv(SumTo(sy, GESTURE_CIRCLE_SAMPLES), GESTURE_CIRCLE_SAMPLES)
        average_radius ==
          RDiv(SumTo(sample_point_diameters, GESTURE_CIRCLE_SAMPLES),
               GESTURE_CIRCLE_SAMPLES * 2)
        circular_deviation ==
          Sqrt(RDiv(SumTo([i \in 1..num_points |->
                             sqr(Sqrt(getSqrPointDist(center_x, center_y, X[i], Y[i]))
                                 - average_radius)], num_points),
                    num_points))
        extremes == ExtremeIndices(cells, num_points)
        x_min_index == extremes[1]
        y_max_index == extremes[2]
        x_max_index == extremes[3]
        ends_distance ==
          Sqrt(getSqrPointDist(cells[1], cells[2],
                               cells[2 * num_points - 1], cells[2 * num_points]))
        clockwise == Clockwise(x_min_index, y_max_index, x_max_index)
    IN  IF /\ average_radius * 2 >= CIRCLE_MIN_DIAMETER
           /\ circular_deviation <= CIRCLE_MAX_DEVIATION
           /\ ends_distance <= MAX_ENDS_DISCANCE
        THEN IF clockwise THEN "ARM_CIRCLE_CW" ELSE "ARM_CIRCLE_CCW"
        ELSE "none"

\* the statistics of lines 215-237 for num_points > 0, the deviations at
\* scale FP: <<x_total, y_total, x_deviation, y_deviation>>
CacheStatistics(cells, num_points) ==
  LET X == PointsX(cells, num_points)
      Y == PointsY(cells, num_points)
  IN  << SumTo(X, num_points),
         SumTo(Y, num_points),
         RDiv(SumTo([i \in 1..num_points |-> sqr(X[i])], num_points), num_points * FP),
         Mul(RDiv(SumTo([i \in 1..num_points |-> sqr(Y[i])], num_points), num_points * FP),
             Y_DEVIATION_CORRECTION) >>

\* variant of RotationTest: the labels the other way round
RotationTestSwapped(x_deviation, y_deviation, roll) ==
  IF /\ x_deviation <= ROTATION_MAX_VARIANCE
     /\ y_deviation <= ROTATION_MAX_VARIANCE
     /\ sqr(roll) > sqr(ROTATION_MIN_ANGLE)
  THEN IF roll < 0 THEN "ARM_ROTATE_CCW" ELSE "ARM_ROTATE_CW"
  ELSE "none"

\* the rotation test (line 244)
RotationTest(x_deviation, y_deviation, roll) ==
  IF /\ x_deviation <= ROTATION_MAX_VARIANCE
     /\ y_deviation <= ROTATION_MAX_VARIANCE
     /\ sqr(roll) > sqr(ROTATION_MIN_ANGLE)
  THEN IF roll < 0 THEN "ARM_ROTATE_CW" ELSE "ARM_ROTATE_CCW"
  ELSE "none"

\* relation = x_deviation / y_deviation compared with a bound: the quotient
\* is +infinity for y_deviation = 0 < x_deviation and NaN for 0 / 0
RelationGreater(x_deviation, y_deviation, bound) ==
  IF y_deviation = 0 THEN x_deviation > 0
  ELSE RDiv(x_deviation * FP, y_deviation) > bound
RelationLess(x_deviation, y_deviation, bound) ==
  IF y_deviation = 0 THEN FALSE
  ELSE RDiv(x_deviation * FP, y_deviation) < bound

\* variant of StraightTest: the distance of the last point is not looked at
StraightTestNoDistance(st, distance) ==
  LET x_total == st[1]
      y_total == st[2]
      x_deviation == st[3]
      y_deviation == st[4]
  IN  IF /\ x_deviation > y_deviation
         /\ (y_deviation = 0
             \/ RDiv(x_deviation * FP, y_deviation) > RDiv(FP * FP, STRAIGHT_MAX_RELATION))
      THEN IF x_total > 0 THEN "ARM_RIGHT" ELSE "ARM_LEFT"
      ELSE IF /\ y_deviation > x_deviation
              /\ RDiv(x_deviation * FP, y_deviation) < STRAIGHT_MAX_RELATION
      THEN IF y_total > 0 THEN "ARM_UP" ELSE "ARM_DOWN"
      ELSE "ARM_UNKNOWN"

\* the straight-movement tests (lines 257-275)
StraightTest(st, distance) ==
  LET x_total == st[1]
      y_total == st[2]
      x_deviation == st[3]
      y_deviation == st[4]
  IN  IF /\ x_deviation > y_deviation
         /\ RelationGreater(x_deviation, y_deviation, RDiv(FP * FP, STRAIGHT_MAX_RELATION))
         /\ distance >= STRAIGHT_MIN_DISTANCE
      THEN IF x_total > 0 THEN "ARM_RIGHT" ELSE "ARM_LEFT"
      ELSE IF /\ y_deviation > x_deviation
              /\ RelationLess(x_deviation, y_deviation, STRAIGHT_MAX_RELATION)
              /\ distance >= STRAIGHT_MIN_DISTANCE
      THEN IF y_total > 0 THEN "ARM_UP" ELSE "ARM_DOWN"
      ELSE "ARM_UNKNOWN"

\* variant of processCacheData: the rotation test comes before the circle test
processCacheDataRotationFirst(cells, offset, roll) ==
  LET num_points == offset \div 2
  IN  IF num_points = 0 THEN "ARM_UNKNOWN"
      ELSE LET st == CacheStatistics(cells, num_points)
               rotation == RotationTest(st[3], st[4], roll)
               circle == CircleTest(cells, num_points)
               distance == Sqrt(getSqrPointDist(0, 0, cells[2 * num_points - 1],
                                                cells[2 * num_points]))
           IN  IF rotation # "none" THEN rotation
               ELSE IF circle # "none" THEN circle
               ELSE StraightTest(st, distance)

\* variant of CursorAfterProcess: the cursor is left where it is
CursorAfterProcessKept(offset) == offset

\* line 93: gesture_cache_offset after processCacheData
CursorAfterProcess(offset) == 0

\* lines 230-231 and 237: a float division whose divisor is zero is made
\* (by num_points, or by y_deviation for the relation), the circle test not
\* having returned before
DividesByZero(cells, num_points) ==
  /\ CircleTest(cells, num_points) = "none"
  /\ \/ num_points = 0
     \/ CacheStatistics(cells, num_points)[4] = 0

\* the label processCacheData() returns for the cells below the cursor and
\* the roll angle.  With num_points = 0 both deviations are 0/0 = NaN, every
\* comparison with them is false and the two cells read before the array
\* (line 257) are never compared: the label is ARM_UNKNOWN.
processCacheData(cells, offset, roll) ==
  LET num_points == offset \div 2
      circle == CircleTest(cells, num_points)
  IN  IF circle # "none" THEN circle
      ELSE IF num_points = 0 THEN "ARM_UNKNOWN"
      ELSE LET st == CacheStatistics(cells, num_points)
               rotation == RotationTest(st[3], st[4], roll)
               distance == Sqrt(getSqrPointDist(0, 0, cells[2 * num_points - 1],
                                                cells[2 * num_points]))
           IN  IF rotation # "none" THEN rotation
               ELSE StraightTest(st, distance)

(***************************************************************************)
(* MyoIMUGestureController.h / .cpp                                        *)
(***************************************************************************)
\* the length of the EMG smoothing window.  The source sets 10; the code is
\* generic in it and the model runs it with a shorter window.
EMG_CACHE_SIZE == 2
EMG_SYNC_TIME == 3000
LOCK_TOGGLE_THRESHOLD == 500
AFTER_SYNC_WAIT == 500

\* --- the environment ----------------------------------------------------
\* the clock advances in steps of TickStep up to MaxTime
TickStep == 500
MaxTime == 4500

\* the 8-channel EMG vectors the armband delivers: a relaxed and a tense hand
EmgRest   == <<0, 0, 0, 0, 0, 0, 0, 0>>
EmgStrong == <<-128, 127, -50, 50, -20, 20, -5, 0>>
EmgSamples == {EmgRest, EmgStrong}

\* the orientation samples the armband delivers, one after the other and
\* then again from the first: the raw quaternion the source indexes quat[0..3].
\* The arm at rest, turned by 0.5 rad about the first axis, rolled by 0.7 rad
\* about the third.
OrientationStream == << <<0, 0, 0, 16384>>,
                        <<4054, 0, 0, 15875>>,
                        <<0, 0, 5618, 15391>> >>

\* --- updateCache (lines 154-162) ----------------------------------------
\* variant of ShiftIn: the newest vector is stored without the shift
ShiftInOverwrite(cache, data) == [cache EXCEPT ![1] = data]

\* memmove shifts the window by one vector, memcpy stores the newest first
ShiftIn(cache, data) == <<data>> \o SubSeq(cache, 1, EMG_CACHE_SIZE - 1)

\* the sum of the absolute values of all entries of the window
AbsSum(cache) ==
  SumTo([i \in 1..EMG_CACHE_SIZE |-> SumTo([j \in 1..8 |-> Abs(cache[i][j])], 8)],
        EMG_CACHE_SIZE)

\* --- the conditions of handleEMGData and handleIMUData ------------------
\* line 183: still syncing?  (unsigned long; the sums stay far below 2^32)
StillSyncing(tc, millis) == tc + EMG_SYNC_TIME > millis

\* variant of EvaluationEnabled: the settle delay is not waited for
EvaluationEnabledNoSettle(synced, tc, millis) ==
  synced /\ (tc + EMG_SYNC_TIME < millis)

\* line 100: lock/unlock evaluation is enabled
EvaluationEnabled(synced, tc, millis) ==
  synced /\ (tc + EMG_SYNC_TIME + AFTER_SYNC_WAIT < millis)

\* line 102: (float) emgSum / (float) emgSync < LOCK_TOGGLE_THRESHOLD.  Both
\* are non-negative and small, the quotient is exact enough for the
\* comparison; with emgSync = 0 it is +infinity or NaN and the test is false.
RatioBelowThreshold(sum, sync) ==
  IF sync = 0 THEN FALSE ELSE sum * FP < LOCK_TOGGLE_THRESHOLD * sync

\* variant of BufferOverflow: a full recording is never discarded
BufferOverflowNever(isLocked, offset) == FALSE

\* line 105: the recording overflowed
BufferOverflow(isLocked, offset) == (~isLocked) /\ gestureBufferFull(offset)

\* variant of ToggleDue: the toggle branch is not taken
ToggleDueNever(toggle) == FALSE

\* variant of ToggleDue: every evaluation below the threshold toggles
ToggleDueAlways(toggle) == TRUE

\* line 113: the pose was released after having been held
ToggleDue(toggle) == ~toggle

\* variant of UnlockReset: the cache is reset by a lock, not by an unlock
UnlockResetOnLock(isLocked) == isLocked

\* variant of UnlockReset: an unlock keeps the cache as it is
UnlockResetNever(isLocked) == FALSE

\* line 119: the toggle was an unlock, the cache is reset
UnlockReset(isLocked) == ~isLocked

\* variant of LockChangeArgument: the value before the toggle is passed
LockChangeArgumentOld(isLocked) == ~isLocked

\* line 123: the argument of on_lock_change
LockChangeArgument(isLocked) == isLocked

\* variant of PoseBegins: every evaluation at or above the threshold is taken
\* as the begin of the pose
PoseBeginsAlways(toggle) == TRUE

\* line 127 and line 132: the pose begins and a recording is open
PoseBegins(toggle) == toggle
ClassifyDue(isLocked) == ~isLocked

\* variant of GestureReported: every label is reported
GestureReportedAlways(gesture) == TRUE

\* line 137: the gesture is reported
GestureReported(gesture) == gesture # "ARM_UNKNOWN"

\* line 145: the sample is recorded
Recording(isLocked) == ~isLocked

\* --- handleIMUData (lines 81-149) ---------------------------------------
\* The lock/unlock evaluation of lines 102-142 on the record
\* [locked, lock_toggle, refresh_init, cache], cache = <<cells, offset, roll>>,
\* given the outcome of the test of line 102.  The result is the record
\* after it with the callbacks made: lock_calls, gesture_calls, classified.
LockEvaluation(st, below) ==
  LET quiet == [lock_calls |-> <<>>, gesture_calls |-> <<>>, classified |-> "none",
                classifiedPts |-> <<>>, discarded |-> FALSE]
  IN
  IF below
  THEN LET overflow == BufferOverflow(st.locked, st.cache[2])
           cache1   == IF overflow THEN resetGestureCache ELSE st.cache
           toggle1  == IF overflow THEN FALSE ELSE st.lock_toggle
       IN  IF ToggleDue(toggle1)
           THEN LET locked2 == ~st.locked
                IN  [quiet EXCEPT !.lock_calls = <<LockChangeArgument(locked2)>>,
                                  !.discarded = overflow]
                    @@ [locked |-> locked2, lock_toggle |-> TRUE,
                        refresh_init |-> st.refresh_init,
                        cache |-> IF UnlockReset(locked2) THEN resetGestureCache
                                                          ELSE cache1]
           ELSE [quiet EXCEPT !.discarded = overflow]
                @@ [locked |-> st.locked, lock_toggle |-> toggle1,
                    refresh_init |-> st.refresh_init, cache |-> cache1]
  ELSE IF PoseBegins(st.lock_toggle)
       THEN IF ClassifyDue(st.locked)
            THEN LET gesture == processCacheData(st.cache[1], st.cache[2], st.cache[3])
                 IN  [quiet EXCEPT !.gesture_calls = IF GestureReported(gesture)
                                                     THEN <<gesture>> ELSE <<>>,
                                   !.classified = gesture,
                                   !.classifiedPts = st.cache[1]]
                     @@ [locked |-> st.locked, lock_toggle |-> FALSE,
                         refresh_init |-> TRUE,
                         \* processCacheData zeroes the cursor and keeps the roll angle
                         cache |-> <<<<>>, 0, st.cache[3]>>]
            ELSE quiet @@ [locked |-> st.locked, lock_toggle |-> FALSE,
                           refresh_init |-> TRUE, cache |-> st.cache]
       ELSE quiet @@ [locked |-> st.locked, lock_toggle |-> st.lock_toggle,
                      refresh_init |-> st.refresh_init, cache |-> st.cache]

\* --- history ------------------------------------------------------------
\* the longest segment of the run held, released, held, released, held that
\* the history e2e follows, in evaluations
MaxSegment == 3

\* the pair updateGestureCache stores for a sample (lines 73-74)
SamplePoint(local) ==
  << asin(clip(At(local, 2, 1), -FP, FP)), asin(clip(At(local, 2, 0), -FP, FP)) >>

LastTwo(s) == IF Len(s) <= 2 THEN s ELSE SubSeq(s, Len(s) - 1, Len(s))

E2EStart == [phase |-> 0, n |-> 0, locks |-> <<>>, gestures |-> <<>>,
             pts3 |-> <<>>, roll3 |-> 0, pts4 |-> <<>>, roll4 |-> 0]
E2EOff   == [E2EStart EXCEPT !.phase = 6]

\* e2e after an evaluation: phase k = 1..5 is the k-th segment of the run
\* (1, 3, 5: pose held; 2, 4: released), phase 5 is reached by the first
\* evaluation of the third hold and ends the run; phase 6: the inputs are
\* not (or no longer) this run.  locks and gestures are the callbacks made
\* since the start, pts3/roll3 the samples handled while the pose was held
\* the second time, pts4/roll4 those handled during the second release.
E2ENext(h, below, lockCalls, gestureCalls, pt, roll_angle) ==
  LET same  == (h.phase \in {1, 3} /\ ~below) \/ (h.phase \in {2, 4} /\ below)
      phase == IF h.phase = 0 THEN (IF below THEN 6 ELSE 1)
               ELSE IF h.phase >= 5 THEN 6
               ELSE IF same THEN (IF h.n < MaxSegment THEN h.phase ELSE 6)
               ELSE h.phase + 1
  IN  IF phase = 6 THEN E2EOff
      ELSE [phase |-> phase,
            n |-> IF phase = h.phase THEN h.n + 1 ELSE 1,
            locks |-> h.locks \o lockCalls,
            gestures |-> h.gestures \o gestureCalls,
            pts3 |-> IF phase = 3 THEN h.pts3 \o pt ELSE h.pts3,
            roll3 |-> IF phase = 3 THEN roll_angle ELSE h.roll3,
            pts4 |-> IF phase = 4 THEN h.pts4 \o pt ELSE h.pts4,
            roll4 |-> IF phase = 4 THEN roll_angle ELSE h.roll4]

SinceUnlockClosed == [open |-> FALSE, pts |-> <<>>, roll |-> 0]

\* since_unlock after an evaluation: opened by the invocation that toggles
\* locked to false, with its sample; closed by a toggle to true and by a
\* classification; in between every sample handled is appended, up to the
\* first GESTURE_CACHE_SIZE / 2
SinceUnlockNext(h, lockCalls, gesture, pt, roll_angle) ==
  IF lockCalls = <<FALSE>> THEN [open |-> TRUE, pts |-> pt, roll |-> roll_angle]
  ELSE IF lockCalls # <<>> \/ gesture # "none" THEN SinceUnlockClosed
  ELSE IF h.open
  THEN [open |-> TRUE,
        pts  |-> IF Len(h.pts) < GESTURE_CACHE_SIZE THEN h.pts \o pt ELSE h.pts,
        roll |-> roll_angle]
  ELSE h

\* the history after an invocation of handleIMUData that evaluated
IMUHistory(below, st1, record, pt, roll_angle) ==
  /\ lock_first' = IF lock_first = <<>> THEN st1.lock_calls ELSE lock_first
  /\ lock_log' = LastTwo(lock_log \o st1.lock_calls)
  /\ gest_since_lock' = IF st1.lock_calls # <<>> THEN 0
                        ELSE Min2(2, gest_since_lock + Len(st1.gesture_calls))
  /\ last_eval' = <<below>>
  /\ held_since_toggle' = IF st1.lock_calls # <<>> THEN FALSE
                          ELSE IF ~below THEN TRUE ELSE held_since_toggle
  /\ pushes_since_empty' =
       LET zeroed == st1.discarded \/ st1.lock_calls = <<FALSE>> \/ st1.classified # "none"
           before == IF zeroed THEN 0 ELSE pushes_since_empty
       IN  IF record THEN Min2(GESTURE_CACHE_SIZE \div 2 + 1, before + 1) ELSE before
  /\ since_unlock' = SinceUnlockNext(since_unlock, st1.lock_calls, st1.classified,
                                     pt, roll_angle)
  /\ e2e' = E2ENext(e2e, below, st1.lock_calls, st1.gesture_calls, pt, roll_angle)
  /\ unlocked_run' = IF below /\ ~st1.locked
                     THEN Min2(GESTURE_CACHE_SIZE \div 2 + 1, unlocked_run + 1)
                     ELSE 0

\* an invocation or step that makes no callback and evaluates nothing
Quiet(name) ==
  /\ op' = name
  /\ evaluated' = FALSE
  /\ belowThreshold' = FALSE
  /\ lock_calls' = <<>>
  /\ gesture_calls' = <<>>
  /\ classified' = "none"
  /\ classifiedPts' = <<>>
  /\ discarded' = FALSE
  /\ pushed' = <<>>
  /\ UNCHANGED histVars

\* The invocation on the matrices and angles of lines 84-97 and the outcome
\* st1 of the evaluation, which is made only when line 100 enables it.
IMUEffects(local, roll_angle, enabled, below, st1) ==
  LET record == enabled /\ Recording(st1.locked)
      cache2 == IF record
                THEN updateGestureCache(st1.cache, At(local, 2, 1), At(local, 2, 0),
                                        roll_angle)
                ELSE st1.cache
  IN  IF enabled
      THEN /\ locked' = st1.locked
           /\ lock_toggle' = st1.lock_toggle
           /\ refresh_init' = st1.refresh_init
           /\ gesture_cache' = cache2[1]
           /\ gesture_cache_offset' = cache2[2]
           /\ gesture_roll_angle' = cache2[3]
           /\ op' = "imu"
           /\ evaluated' = TRUE
           /\ belowThreshold' = below
           /\ lock_calls' = st1.lock_calls
           /\ gesture_calls' = st1.gesture_calls
           /\ classified' = st1.classified
           /\ classifiedPts' = st1.classifiedPts
           /\ discarded' = st1.discarded
           /\ pushed' = IF record
                        THEN <<At(local, 2, 1), At(local, 2, 0), roll_angle>>
                        ELSE <<>>
           /\ IMUHistory(below, st1, record, SamplePoint(local), roll_angle)
      ELSE /\ refresh_init' = FALSE
           /\ UNCHANGED <<locked, lock_toggle, gesture_cache, gesture_cache_offset,
                          gesture_roll_angle>>
           /\ Quiet("imu")

HandleIMUData ==
  LET data   == OrientationStream[imuPos]
      matrix == unit_quaternion_to_matrix(data)
      inv    == IF refresh_init THEN inverse_matrix(matrix) ELSE inverseInitMatrix
      enabled == EvaluationEnabled(isEMGSynced, timeConnected, now)
      below  == RatioBelowThreshold(emgSum, emgSync)
      st0    == [locked |-> locked, lock_toggle |-> lock_toggle, refresh_init |-> FALSE,
                 cache |-> <<gesture_cache, gesture_cache_offset, gesture_roll_angle>>]
  IN  /\ imuPos' = (imuPos % Len(OrientationStream)) + 1
      /\ inverseInitMatrix' = inv
      /\ \E local \in {multiply_matrix(matrix, inv)} :
           \E st1 \in {IF enabled THEN LockEvaluation(st0, below) ELSE st0} :
             IMUEffects(local, asin(At(local, 1, 0)), enabled, below, st1)
      /\ vibrations' = <<>>
      /\ captured' = refresh_init
      /\ ref_fresh' = IF lock_calls' = <<FALSE>> THEN refresh_init
                      ELSE IF refresh_init THEN TRUE ELSE ref_fresh
      /\ UNCHANGED <<now, emgCache, emgSum, emgSync, isEMGSynced, timeConnected>>
      /\ UNCHANGED <<syncVars, fnVars>>

\* --- handleEMGData (lines 167-198) --------------------------------------
HandleEMGData(data) ==
  LET cache == ShiftIn(emgCache, data)
      sum   == AbsSum(cache)
      tc    == IF timeConnected = 0 THEN now ELSE timeConnected
  IN  /\ emgCache' = cache
      /\ emgSum' = sum
      /\ timeConnected' = tc
      /\ IF StillSyncing(tc, now)
         THEN /\ emgSync' = IF sum > emgSync THEN sum ELSE emgSync
              /\ UNCHANGED isEMGSynced
              /\ vibrations' = <<>>
         ELSE /\ isEMGSynced' = TRUE
              /\ vibrations' = IF ~isEMGSynced THEN <<1>> ELSE <<>>
              /\ UNCHANGED emgSync
      /\ Quiet("emg")
      /\ emg_first' = IF now >= tc + EMG_SYNC_TIME THEN <<>>
                      ELSE IF emg_first = <<>> THEN <<now>> ELSE emg_first
      /\ emg_max' = IF now < tc + EMG_SYNC_TIME /\ sum > emg_max THEN sum ELSE emg_max
      /\ emg_log' = <<data>> \o SubSeq(emg_log, 1, Min2(Len(emg_log), EMG_CACHE_SIZE - 1))
      /\ captured' = FALSE
      /\ UNCHANGED <<ref_fresh, fnVars>>
      /\ UNCHANGED <<now, inverseInitMatrix, refresh_init, lock_toggle, locked,
                     gesture_cache, gesture_cache_offset, gesture_roll_angle, imuPos>>

\* --- the clock ----------------------------------------------------------
Tick ==
  /\ now + TickStep <= MaxTime
  /\ now' = now + TickStep
  /\ Quiet("tick")
  /\ vibrations' = <<>>
  /\ captured' = FALSE
  /\ UNCHANGED <<ref_fresh, syncVars, fnVars>>
  /\ UNCHANGED <<inverseInitMatrix, refresh_init, emgCache, emgSum, emgSync,
                 isEMGSynced, lock_toggle, locked, timeConnected, gesture_cache,
                 gesture_cache_offset, gesture_roll_angle, imuPos>>

\* --- the state after begin() (the static initialisers, lines 26-44; the
\* members without one, locked among them, are zero-initialised) ----------
ControllerInit ==
  /\ now = 0
  /\ inverseInitMatrix = ZERO_MATRIX
  /\ refresh_init = TRUE
  /\ emgCache = [i \in 1..EMG_CACHE_SIZE |-> EmgRest]
  /\ emgSum = 0
  /\ emgSync = 0
  /\ isEMGSynced = FALSE
  /\ lock_toggle = TRUE
  /\ locked = FALSE
  /\ timeConnected = 0
  /\ gesture_cache = <<>>
  /\ gesture_cache_offset = 0
  /\ gesture_roll_angle = 0
  /\ imuPos = 1
  /\ op = "init"
  /\ evaluated = FALSE
  /\ belowThreshold = FALSE
  /\ lock_calls = <<>>
  /\ gesture_calls = <<>>
  /\ classified = "none"
  /\ classifiedPts = <<>>
  /\ discarded = FALSE
  /\ pushed = <<>>
  /\ vibrations = <<3>>
  /\ lock_first = <<>>
  /\ lock_log = <<>>
  /\ gest_since_lock = 0
  /\ last_eval = <<>>
  /\ held_since_toggle = FALSE
  /\ pushes_since_empty = 0
  /\ since_unlock = SinceUnlockClosed
  /\ e2e = E2EStart
  /\ unlocked_run = 0
  /\ emg_first = <<>>
  /\ emg_max = 0
  /\ emg_log = <<>>
  /\ captured = FALSE
  /\ ref_fresh = FALSE

\* no cache and no matrix is handed to the functions on their own
PcIdle == [cells |-> <<>>, offset |-> 0, roll |-> 0, label |-> "pending",
           again |-> "pending", shape |-> "free", size |-> 0]
MxIdle == [in |-> ZERO_MATRIX, out |-> <<>>, back |-> <<>>]

Init ==
  /\ ControllerInit
  /\ pc = PcIdle
  /\ mx = MxIdle

EmgStep == \E data \in EmgSamples : HandleEMGData(data)

Next == Tick \/ EmgStep \/ HandleIMUData

vars == <<progVars, obsVars, histVars, syncVars, refVars, fnVars>>

Spec == Init /\ [][Next]_vars

\* orientation samples keep arriving: the loop of the sketch pumps the bridge
\* for ever and the armband streams IMU data
FairSpec == Spec /\ []<><<HandleIMUData>>_vars

(***************************************************************************)
(* processCacheData applied on its own to a cache and a roll angle         *)
(***************************************************************************)
\* the most points the cache is filled with one by one
PcMaxPoints == 2

\* the coordinates of the points filled in one by one, and the roll angles
\* (pi/6 is 524, pi/3 is 1047)
PcGrid == {-500, -375, 0, 375, 500}
PcRolls == {-1047, -524, 0, 524, 1047}

\* 500 * sin(k * 18 degrees), k = 0..5, 500 * sin(k * 30 degrees), k = 0..3,
\* and 500 * sin(k * 6 degrees), k = 0..15
Sin18 == <<0, 155, 294, 405, 476, 500>>
Sin30 == <<0, 250, 433, 500>>
Sin6 == <<0, 52, 104, 155, 203, 250, 294, 335, 372, 405, 433, 457, 476, 489, 497, 500>>

\* 500 * sin and 500 * cos of k steps of a quarter table t (k >= 0)
SinOf(t, k) ==
  LET q == Len(t) - 1
      i == k % (4 * q)
  IN  IF i <= q THEN t[i + 1]
      ELSE IF i <= 2 * q THEN t[2 * q - i + 1]
      ELSE IF i <= 3 * q THEN -t[i - 2 * q + 1]
      ELSE -t[4 * q - i + 1]
CosOf(t, k) == SinOf(t, k + Len(t) - 1)

\* the cells of n points spread evenly over the circle of radius r around
\* the origin, step table steps apart (n * step is the full circle), the
\* first at start steps, the others following clockwise (y pointing up) or
\* counter-clockwise
CircleCells(t, step, n, start, cw, r) ==
  [i \in 1..(2 * n) |->
     LET j == (i - 1) \div 2
         k == (start + (IF cw THEN n - j ELSE j)) * step
     IN  IF i % 2 = 1 THEN RDiv(CosOf(t, k) * r, 500)
                      ELSE RDiv(SinOf(t, k) * r, 500)]

\* the cells of n >= 2 points spread evenly from (0,0) to (dx, dy)
LineCells(n, dx, dy) ==
  [i \in 1..(2 * n) |->
     LET j == (i - 1) \div 2
     IN  IF i % 2 = 1 THEN RDiv(j * dx, n - 1) ELSE RDiv(j * dy, n - 1)]

\* the cells of n points at the origin
ClusterCells(n) == [i \in 1..(2 * n) |-> 0]

\* a circle is also handed over moved left and down by PcShift, all its
\* coordinates negative
PcShift == 600

\* the circles: quarter table, step, number of points
CircleShapes ==
  {<<Sin18, 2, 10>>, <<Sin30, 1, 12>>, <<Sin6, 4, 15>>, <<Sin18, 1, 20>>, <<Sin6, 1, 60>>}

PcInputs ==
  {[cells |-> CircleCells(c[1], c[2], c[3], start, cw, r),
    shape |-> IF cw THEN "cw" ELSE "ccw", size |-> r] :
       c \in {d \in CircleShapes : TRUE}, start \in 0..19, cw \in BOOLEAN,
       r \in {400, 500}}
  \cup {[cells |-> [i \in 1..20 |->
                       CircleCells(Sin18, 2, 10, start, cw, 500)[i] - PcShift],
          shape |-> IF cw THEN "cw_shifted" ELSE "ccw_shifted", size |-> 500] :
            start \in 0..9, cw \in BOOLEAN}
  \cup {[cells |-> LineCells(n, d[1], d[2]), shape |-> "line", size |-> n] :
          n \in {2, 11},
          d \in {<<1000, 0>>, <<-1000, 0>>, <<0, 1000>>, <<0, -1000>>}}
  \cup {[cells |-> ClusterCells(n), shape |-> "cluster", size |-> n] :
          n \in {1, 3, 12}}
  \cup {[cells |-> <<>>, shape |-> "free", size |-> 0]}

\* a point is stored in a cache that is filled one by one
PcPush(x, y) ==
  /\ pc.label = "pending"
  /\ pc.shape = "free"
  /\ Len(pc.cells) < 2 * PcMaxPoints
  /\ pc' = [pc EXCEPT !.cells = @ \o <<x, y>>, !.offset = @ + 2]
  /\ UNCHANGED <<progVars, obsVars, histVars, syncVars, refVars, mx>>

\* processCacheData runs on the cache: lines 92-93 take the number of points
\* from the cursor and zero the cursor, the cells and the roll angle are
\* only read
PcClassify ==
  /\ pc.label = "pending"
  /\ pc' = [pc EXCEPT !.label = processCacheData(pc.cells, pc.offset, pc.roll),
                      !.offset = CursorAfterProcess(pc.offset)]
  /\ UNCHANGED <<progVars, obsVars, histVars, syncVars, refVars, mx>>

\* processCacheData runs once more, right after the first call
PcClassifyAgain ==
  /\ pc.label # "pending"
  /\ pc.again = "pending"
  /\ pc' = [pc EXCEPT !.again = processCacheData(pc.cells, pc.offset, pc.roll),
                      !.offset = CursorAfterProcess(pc.offset)]
  /\ UNCHANGED <<progVars, obsVars, histVars, syncVars, refVars, mx>>

ClassifierInit ==
  /\ ControllerInit
  /\ mx = MxIdle
  /\ pc \in {[cells |-> i.cells, offset |-> Len(i.cells), roll |-> r,
              label |-> "pending", again |-> "pending",
              shape |-> i.shape, size |-> i.size] : i \in PcInputs, r \in PcRolls}

PcPushStep == \E x \in PcGrid, y \in PcGrid : PcPush(x, y)

ClassifierNext == PcPushStep \/ PcClassify \/ PcClassifyAgain

ClassifierSpec == ClassifierInit /\ [][ClassifierNext]_vars

(***************************************************************************)
(* inverse_matrix on its own                                               *)
(***************************************************************************)
\* the entries of the first two rows of an input go from -MxMaxEntry to
\* MxMaxEntry
MxMaxEntry == 1

\* the third rows of the inputs
MxThirdRows == {<<0, 0, FP>>, <<FP, FP, FP>>, <<FP, -FP, 0>>, <<500, -250, 2 * FP>>}

\* orientation quaternions (x, y, z, w) as the armband sends them
MxQuaternions ==
  {<<0, 0, 0, 16384>>, <<11585, 0, 0, 11585>>, <<0, 8192, 8192, 11585>>,
   <<8192, 8192, 8192, 8192>>, <<0, 9830, 0, 13107>>}

MxInputs ==
  {<<<<a * FP, b * FP, c * FP>>, <<d * FP, e * FP, f * FP>>, r>> :
      a \in -MxMaxEntry..MxMaxEntry, b \in -MxMaxEntry..MxMaxEntry,
      c \in -MxMaxEntry..MxMaxEntry, d \in -MxMaxEntry..MxMaxEntry,
      e \in -MxMaxEntry..MxMaxEntry, f \in -MxMaxEntry..MxMaxEntry,
      r \in MxThirdRows}
  \cup {unit_quaternion_to_matrix(q) : q \in MxQuaternions}

\* inverse_matrix(in, out) is called on the input
InvertMatrix ==
  /\ mx.out = <<>>
  /\ determinant(mx.in) # 0
  /\ mx' = [mx EXCEPT !.out = inverse_matrix(mx.in)]
  /\ UNCHANGED <<progVars, obsVars, histVars, syncVars, refVars, pc>>

\* inverse_matrix is called on what the first call returned
InvertBack ==
  /\ mx.out # <<>>
  /\ mx.back = <<>>
  /\ determinant(mx.out) # 0
  /\ mx' = [mx EXCEPT !.back = inverse_matrix(mx.out)]
  /\ UNCHANGED <<progVars, obsVars, histVars, syncVars, refVars, pc>>

MatrixInit ==
  /\ ControllerInit
  /\ pc = PcIdle
  /\ \E in \in MxInputs : mx = [in |-> in, out |-> <<>>, back |-> <<>>]

MatrixNext == InvertMatrix \/ InvertBack

MatrixSpec == MatrixInit /\ [][MatrixNext]_vars

(***************************************************************************)
(* Properties                                                              *)
(***************************************************************************)
\* the evaluation of lines 102-142 is not enabled in the current state
NotYetSettled ==
  ~isEMGSynced \/ now <= timeConnected + EMG_SYNC_TIME + AFTER_SYNC_WAIT

\* the recording is full and open at the entry of an invocation
FullAndUnlocked == ~locked /\ gesture_cache_offset = GESTURE_CACHE_SIZE

\* C1: locked changes in a step exactly when that step is a handleIMUData
\* invocation that calls on_lock_change; the callback is made at most once
\* per invocation and with the new value of locked; handleEMGData and the
\* clock never change locked; two consecutive calls carry different values.
C1_LockChangeReported ==
  [][ /\ (locked' # locked) <=> (op' = "imu" /\ lock_calls' # <<>>)
      /\ Len(lock_calls') <= 1
      /\ lock_calls' # <<>> => lock_calls' = <<locked'>>
      /\ op' # "imu" => (locked' = locked /\ lock_calls' = <<>>)
      /\ Len(lock_log') = 2 => lock_log'[1] # lock_log'[2] ]_vars

\* a second on_lock_change call has been made, in an IMU invocation
C1_Witness ==
  /\ op = "imu"
  /\ lock_calls = <<locked>>
  /\ Len(lock_log) = 2
  /\ lock_log[2] = locked

\* C2: (a) an evaluation at or above the threshold neither changes locked
\* nor calls on_lock_change; (b) a toggle happens only in an evaluation
\* below the threshold, and then either the recording overflowed (and the
\* toggle is a re-lock) or the evaluation before it was at or above the
\* threshold, after the previous toggle: a run of evaluations below the
\* threshold toggles only at its first evaluation, overflow apart; the
\* first evaluation made does not toggle when it is below the threshold.
C2_Debounce ==
  [][ /\ (evaluated' /\ ~belowThreshold')
           => (locked' = locked /\ lock_calls' = <<>>)
      /\ (locked' # locked \/ lock_calls' # <<>>)
           => /\ evaluated' /\ belowThreshold'
              /\ \/ FullAndUnlocked /\ locked'
                 \/ last_eval = <<FALSE>> /\ held_since_toggle
      /\ (evaluated' /\ belowThreshold' /\ last_eval = <<>>)
           => (locked' = locked /\ lock_calls' = <<>>) ]_vars

\* a second evaluation below the threshold in a row, after a toggle at the
\* first one of the run
C2_Witness ==
  /\ evaluated /\ belowThreshold
  /\ last_eval = <<TRUE>>
  /\ lock_calls = <<>>
  /\ lock_log # <<>>
  /\ ~held_since_toggle

\* C3: a handleIMUData invocation made while isEMGSynced is false or
\* millis() <= timeConnected + EMG_SYNC_TIME + AFTER_SYNC_WAIT leaves locked,
\* lock_toggle and the sample cache (cells, cursor, roll angle) unchanged
\* and calls neither on_lock_change nor on_gesture.
C3_NothingBeforeSettle ==
  [][ (op' = "imu" /\ NotYetSettled)
        => /\ UNCHANGED <<locked, lock_toggle, gesture_cache, gesture_cache_offset,
                          gesture_roll_angle>>
           /\ lock_calls' = <<>>
           /\ gesture_calls' = <<>>
           /\ ~evaluated' ]_vars

\* an IMU invocation during the settle delay, after sync, with the ratio
\* below the threshold
C3_Witness ==
  /\ op = "imu"
  /\ ~evaluated
  /\ isEMGSynced
  /\ now > timeConnected + EMG_SYNC_TIME
  /\ emgSync > 0
  /\ emgSum * FP < LOCK_TOGGLE_THRESHOLD * emgSync

\* C4: the controller starts locked: as long as no on_lock_change call has
\* been made, every evaluation finds and leaves locked true, records no
\* sample and runs no classification; the first on_lock_change call ever
\* made carries false.
C4_StartsLocked ==
  /\ (evaluated /\ lock_first = <<>>)
       => (locked /\ pushed = <<>> /\ classified = "none")
  /\ lock_first # <<>> => lock_first = <<FALSE>>

\* C5: on_gesture is never called with ARM_UNKNOWN, and a classification
\* that returns ARM_UNKNOWN is followed by no on_gesture call at all.
C5_UnknownSuppressed ==
  /\ \A i \in 1..Len(gesture_calls) : gesture_calls[i] # "ARM_UNKNOWN"
  /\ classified = "ARM_UNKNOWN" => gesture_calls = <<>>
  /\ (classified \notin {"none", "ARM_UNKNOWN"}) => gesture_calls = <<classified>>

\* the classifier ran on recorded points and returned ARM_UNKNOWN
C5_Witness ==
  /\ classified = "ARM_UNKNOWN"
  /\ classifiedPts # <<>>
  /\ gesture_calls = <<>>

\* C6: on_gesture is called only while locked is false, at most once
\* between two consecutive on_lock_change calls, only after an
\* on_lock_change(false) with no on_lock_change(true) after it, and the
\* next on_lock_change call after it carries true.
C6_OncePerCycle ==
  [][ /\ gesture_calls' # <<>>
           => /\ ~locked /\ ~locked'
              /\ Len(gesture_calls') = 1
              /\ gest_since_lock' <= 1
              /\ lock_log # <<>> /\ lock_log[Len(lock_log)] = FALSE
      /\ (lock_calls' # <<>> /\ gest_since_lock >= 1)
           => lock_calls' = <<TRUE>> ]_vars

\* C7: an evaluation below the threshold that finds the controller
\* unlocked and the sample cache full discards the recording (cursor 0,
\* roll angle 0), re-locks with on_lock_change(true) and calls no
\* on_gesture.
C7_OverflowDiscard ==
  [][ (evaluated' /\ belowThreshold' /\ FullAndUnlocked)
        => /\ gesture_cache' = <<>>
           /\ gesture_cache_offset' = 0
           /\ gesture_roll_angle' = 0
           /\ locked'
           /\ lock_calls' = <<TRUE>>
           /\ gesture_calls' = <<>>
           /\ classified' = "none" ]_vars

\* a full recording has just been discarded and the controller re-locked
C7_Witness ==
  /\ discarded
  /\ evaluated /\ belowThreshold
  /\ locked
  /\ lock_calls = <<TRUE>>
  /\ gesture_cache_offset = 0

\* the label the classifier gives a list of recorded cells and a roll angle
LabelOf(cells, roll) == processCacheData(cells, Len(cells), roll)

C9_ClassifiedIsRecorded ==
  [][ /\ classified' # "none"
           => /\ classifiedPts' = since_unlock.pts
              /\ gesture_roll_angle = since_unlock.roll
      /\ pushed' # <<>> => (evaluated' /\ ~locked') ]_vars

\* C10: the cache is full exactly when GESTURE_CACHE_SIZE / 2 or more
\* updateGestureCache calls were made since it was last empty, it holds two
\* cells for each of the first GESTURE_CACHE_SIZE / 2 of them, and a call on
\* a full cache leaves the cursor and the cells as they are and stores the
\* roll angle passed.
C10_CacheFill ==
  [][ /\ gestureBufferFull(gesture_cache_offset')
           <=> pushes_since_empty' >= GESTURE_CACHE_SIZE \div 2
      /\ gesture_cache_offset' = 2 * Min2(pushes_since_empty', GESTURE_CACHE_SIZE \div 2)
      /\ Len(gesture_cache') = gesture_cache_offset'
      /\ (pushed' # <<>>
          /\ pushes_since_empty >= GESTURE_CACHE_SIZE \div 2
          /\ pushes_since_empty' > GESTURE_CACHE_SIZE \div 2)
           => /\ gestureBufferFull(gesture_cache_offset)
              /\ UNCHANGED <<gesture_cache, gesture_cache_offset>>
              /\ gesture_roll_angle' = pushed'[3] ]_vars

\* updateGestureCache has just been called on a full cache with a roll
\* angle other than the one stored
C10_Witness ==
  /\ pushes_since_empty > GESTURE_CACHE_SIZE \div 2
  /\ pushed # <<>>
  /\ gesture_cache_offset = GESTURE_CACHE_SIZE
  /\ gesture_roll_angle = pushed[3]
  /\ gesture_roll_angle # 0

\* C11: the cursor gesture_cache_offset is always even and between 0 and
\* GESTURE_CACHE_SIZE; once it equals GESTURE_CACHE_SIZE it keeps that value
\* in every step but those in which resetGestureCache (overflow discard,
\* unlock) or processCacheData runs.
C11_CursorRange ==
  [][ /\ gesture_cache_offset' % 2 = 0
      /\ gesture_cache_offset' >= 0
      /\ gesture_cache_offset' <= GESTURE_CACHE_SIZE
      /\ (gesture_cache_offset = GESTURE_CACHE_SIZE
          /\ gesture_cache_offset' # GESTURE_CACHE_SIZE)
           => \/ discarded'
              \/ lock_calls' = <<FALSE>>
              \/ classified' # "none" ]_vars

\* an evaluation that neither resets nor classifies has left the cache full
C11_Witness ==
  /\ op = "imu" /\ evaluated /\ ~belowThreshold
  /\ classified = "none"
  /\ gesture_cache_offset = GESTURE_CACHE_SIZE
  /\ Len(gesture_cache) = GESTURE_CACHE_SIZE

\* C12: resetGestureCache leaves the cursor and the roll angle at 0; the
\* controller runs it in every invocation that toggles locked to false (the
\* cache then holds the sample of that invocation only) and in every
\* overflow discard, and not in an invocation that toggles locked to true
\* without overflow (the cache is then left as it was).
C12_ResetLifecycle ==
  [][ /\ lock_calls' = <<FALSE>>
           => /\ pushed' # <<>>
              /\ gesture_cache' = << asin(clip(pushed'[1], -FP, FP)),
                                     asin(clip(pushed'[2], -FP, FP)) >>
              /\ gesture_cache_offset' = 2
              /\ gesture_roll_angle' = pushed'[3]
      /\ discarded'
           => /\ gesture_cache' = <<>>
              /\ gesture_cache_offset' = 0
              /\ gesture_roll_angle' = 0
      /\ (lock_calls' = <<TRUE>> /\ ~discarded')
           => UNCHANGED <<gesture_cache, gesture_cache_offset, gesture_roll_angle>> ]_vars

\* the unlock of the run held, released, held, released: the samples
\* recorded during the first hold are gone, the cache holds one point
C12_Witness ==
  /\ e2e.phase = 4 /\ e2e.n = 1
  /\ lock_calls = <<FALSE>>
  /\ ~locked
  /\ gesture_cache_offset = 2

\* C19 (as stated): the evaluation that detects overflow only resets the
\* cache and clears lock_toggle; it neither toggles locked nor calls
\* on_lock_change.
C19_OverflowOnlyArms ==
  [][ (evaluated' /\ belowThreshold' /\ FullAndUnlocked)
        => /\ gesture_cache_offset' = 0
           /\ ~lock_toggle'
           /\ locked' = locked
           /\ lock_calls' = <<>> ]_vars

\* C19 (amended): the evaluation that detects overflow resets the cache,
\* clears lock_toggle and, in the same evaluation, takes the toggle branch:
\* locked becomes true, lock_toggle is true again and on_lock_change(true)
\* is called; an evaluation below the threshold that follows it directly
\* toggles nothing.
C19_OverflowRelocksAtOnce ==
  [][ /\ (evaluated' /\ belowThreshold' /\ FullAndUnlocked)
           => /\ discarded'
              /\ gesture_cache_offset' = 0
              /\ lock_toggle'
              /\ locked' /\ ~locked
              /\ lock_calls' = <<TRUE>>
      /\ (discarded /\ evaluated' /\ belowThreshold')
           => /\ locked' = locked
              /\ lock_calls' = <<>> ]_vars

\* the overflow was detected and the controller is locked again, with
\* lock_toggle set, at the end of the same invocation
C19_Witness ==
  /\ discarded
  /\ op = "imu"
  /\ lock_toggle
  /\ lock_log # <<>> /\ lock_log[Len(lock_log)] = TRUE
  /\ pushed = <<>>

\* C20: throughout the sync window timeConnected is the clock value read
\* in the first handleEMGData invocation, recorded once; emgSync is the
\* greatest emgSum of an invocation made while millis() < timeConnected +
\* EMG_SYNC_TIME and does not change in an invocation after that.
C20_SyncWindow ==
  [][ /\ emg_first' # <<>> => timeConnected' = emg_first'[1]
      /\ timeConnected # 0 => timeConnected' = timeConnected
      /\ emgSync' = emg_max'
      /\ now >= timeConnected' + EMG_SYNC_TIME => emgSync' = emgSync ]_vars

\* the cache handed to processCacheData on its own: its number of points,
\* its statistics (for at least one point) and the distance of its last point
PcPoints == Len(pc.cells) \div 2
PcStats == CacheStatistics(pc.cells, PcPoints)
PcDistance ==
  Sqrt(getSqrPointDist(0, 0, pc.cells[2 * PcPoints - 1], pc.cells[2 * PcPoints]))

\* the conditions of the three tests on that cache
PcCircleAccepts == CircleTest(pc.cells, PcPoints) # "none"
PcRotationAccepts ==
  /\ PcPoints > 0
  /\ PcStats[3] <= ROTATION_MAX_VARIANCE
  /\ PcStats[4] <= ROTATION_MAX_VARIANCE
  /\ pc.roll * pc.roll > ROTATION_MIN_ANGLE * ROTATION_MIN_ANGLE
PcHorizontalAccepts ==
  /\ PcPoints > 0
  /\ PcStats[3] > PcStats[4]
  /\ RelationGreater(PcStats[3], PcStats[4], RDiv(FP * FP, STRAIGHT_MAX_RELATION))
  /\ PcDistance >= STRAIGHT_MIN_DISTANCE
PcVerticalAccepts ==
  /\ PcPoints > 0
  /\ PcStats[4] > PcStats[3]
  /\ RelationLess(PcStats[3], PcStats[4], STRAIGHT_MAX_RELATION)
  /\ PcDistance >= STRAIGHT_MIN_DISTANCE

CircleLabels == {"ARM_CIRCLE_CW", "ARM_CIRCLE_CCW"}
RotateLabels == {"ARM_ROTATE_CW", "ARM_ROTATE_CCW"}
StraightLabels == {"ARM_RIGHT", "ARM_LEFT", "ARM_UP", "ARM_DOWN"}

\* C13: on a cache of no point or of one point processCacheData divides by
\* zero nowhere and returns ARM_UNKNOWN.
C13_FewPointsUnknown ==
  (pc.label # "pending" /\ PcPoints <= 1)
    => /\ pc.label = "ARM_UNKNOWN"
       /\ ~DividesByZero(pc.cells, PcPoints)

\* C14: the first test that accepts decides, in the order circle, rotation,
\* straight line: a circle label whenever the circle test accepts, a rotate
\* label whenever it does not and the rotation test accepts, a straight
\* label whenever only a straight test accepts, ARM_UNKNOWN exactly when
\* none accepts; with fewer than GESTURE_CIRCLE_SAMPLES points no circle
\* label is returned.
C14_Cascade ==
  pc.label # "pending"
    => /\ PcCircleAccepts => pc.label \in CircleLabels
       /\ (~PcCircleAccepts /\ PcRotationAccepts) => pc.label \in RotateLabels
       /\ (~PcCircleAccepts /\ ~PcRotationAccepts
           /\ (PcHorizontalAccepts \/ PcVerticalAccepts))
            => pc.label \in StraightLabels
       /\ pc.label = "ARM_UNKNOWN"
            <=> (~PcCircleAccepts /\ ~PcRotationAccepts
                 /\ ~PcHorizontalAccepts /\ ~PcVerticalAccepts)
       /\ PcPoints < GESTURE_CIRCLE_SAMPLES => pc.label \notin CircleLabels

\* a circle label was returned for a cache on which the rotation test
\* accepts as well
C14_Witness ==
  /\ pc.label \in CircleLabels
  /\ PcCircleAccepts
  /\ PcRotationAccepts

\* C15: points spread over the circle of diameter 1.0 around the origin, 10
\* or more, give ARM_CIRCLE_CW when they follow each other clockwise and
\* ARM_CIRCLE_CCW when counter-clockwise; whenever a circle label is
\* returned it is ARM_CIRCLE_CW exactly when the indices of the least x,
\* the greatest y and the greatest x are in the order xmin < ymax < xmax,
\* ymax < xmax < xmin or xmax < xmin < ymax.
C15_CircleDirection ==
  pc.label # "pending"
    => /\ (pc.shape = "cw" /\ pc.size = 500) => pc.label = "ARM_CIRCLE_CW"
       /\ (pc.shape = "ccw" /\ pc.size = 500) => pc.label = "ARM_CIRCLE_CCW"
       /\ pc.label \in CircleLabels
            => LET X == PointsX(pc.cells, PcPoints)
                   Y == PointsY(pc.cells, PcPoints)
                   xmin == TrackMin(X, PcPoints, 1000 * FP)[2]
                   xmax == TrackMax(X, PcPoints, 0)[2]
                   ymax == TrackMax(Y, PcPoints, 0)[2]
               IN  pc.label = "ARM_CIRCLE_CW"
                     <=> \/ xmin < ymax /\ ymax < xmax
                         \/ ymax < xmax /\ xmax < xmin
                         \/ xmax < xmin /\ xmin < ymax

\* ten points of the circle of diameter 1.0, clockwise, were classified
C15_Witness ==
  /\ pc.shape = "cw" /\ pc.size = 500
  /\ PcPoints = GESTURE_CIRCLE_SAMPLES
  /\ pc.label = "ARM_CIRCLE_CW"

\* C16: when the circle test does not accept, a rotate label is returned
\* exactly when the mean squares of x and of y (the latter times 1.3) are
\* both at most ROTATION_MAX_VARIANCE and the squared roll angle is above
\* ROTATION_MIN_ANGLE squared: ARM_ROTATE_CW for a negative roll angle,
\* ARM_ROTATE_CCW for a positive one; points at the origin with the roll
\* angle pi/3 give ARM_ROTATE_CCW, with -pi/3 ARM_ROTATE_CW.
C16_Rotation ==
  (pc.label # "pending" /\ ~PcCircleAccepts)
    => /\ pc.label \in RotateLabels <=> PcRotationAccepts
       /\ pc.label = "ARM_ROTATE_CW" => pc.roll < 0
       /\ pc.label = "ARM_ROTATE_CCW" => pc.roll > 0
       /\ (pc.shape = "cluster" /\ pc.roll = 1047) => pc.label = "ARM_ROTATE_CCW"
       /\ (pc.shape = "cluster" /\ pc.roll = -1047) => pc.label = "ARM_ROTATE_CW"

\* twelve points at the origin with the roll angle pi/3 were classified
C16_Witness ==
  /\ pc.shape = "cluster" /\ pc.size = 12
  /\ pc.roll = 1047
  /\ pc.label = "ARM_ROTATE_CCW"

\* C17: when neither the circle nor the rotation test accepts, a horizontal
\* label is returned exactly when x-variance > corrected y-variance, their
\* quotient is above 1 / STRAIGHT_MAX_RELATION and the last point is at
\* least STRAIGHT_MIN_DISTANCE from the origin, ARM_RIGHT for a positive sum
\* of x and ARM_LEFT otherwise; a vertical label exactly when y > x, the
\* quotient is below STRAIGHT_MAX_RELATION and the same distance holds,
\* ARM_UP for a positive sum of y and ARM_DOWN otherwise; the line from
\* (0,0) to (1,0) gives ARM_RIGHT and the line to (-1,0) ARM_LEFT.
C17_Straight ==
  (pc.label # "pending" /\ ~PcCircleAccepts /\ ~PcRotationAccepts)
    => /\ pc.label \in {"ARM_RIGHT", "ARM_LEFT"} <=> PcHorizontalAccepts
       /\ pc.label = "ARM_RIGHT" => PcStats[1] > 0
       /\ pc.label = "ARM_LEFT" => PcStats[1] <= 0
       /\ pc.label \in {"ARM_UP", "ARM_DOWN"} <=> PcVerticalAccepts
       /\ pc.label = "ARM_UP" => PcStats[2] > 0
       /\ pc.label = "ARM_DOWN" => PcStats[2] <= 0
       /\ (pc.shape = "line" /\ pc.cells[Len(pc.cells) - 1] = 1000)
            => pc.label = "ARM_RIGHT"
       /\ (pc.shape = "line" /\ pc.cells[Len(pc.cells) - 1] = -1000)
            => pc.label = "ARM_LEFT"

\* the line of eleven points from (0,0) to (1,0), its y-variance zero, was
\* classified
C17_Witness ==
  /\ pc.shape = "line" /\ pc.size = 11
  /\ pc.cells[Len(pc.cells) - 1] = 1000
  /\ PcStats[4] = 0
  /\ pc.label = "ARM_RIGHT"

\* the identity, and the greatest difference of two entries of matrices that
\* are taken as equal at the three decimals of the arithmetic, for each call
\* of inverse_matrix that lies between them
IDENTITY_MATRIX == <<<<FP, 0, 0>>, <<0, FP, 0>>, <<0, 0, FP>>>>
MxTolerance == FP \div 40
MxNear(a, b, calls) ==
  \A i \in 1..3 : \A j \in 1..3 :
     /\ a[i][j] - b[i][j] <= calls * MxTolerance
     /\ b[i][j] - a[i][j] <= calls * MxTolerance

\* the (i, j) entry of the adjugate: the signed minor without row j and
\* column i
MxAdjugate(m, i, j) ==
  LET rows == <<<<2, 3>>, <<1, 3>>, <<1, 2>>>>
      r == rows[j]
      c == rows[i]
      minor == Mul(m[r[1]][c[1]], m[r[2]][c[2]]) - Mul(m[r[1]][c[2]], m[r[2]][c[1]])
  IN  IF (i + j) % 2 = 0 THEN minor ELSE -minor

\* C18: for an input of non-zero determinant, in x out and out x in are the
\* identity, every out[i][j] is the (i, j) entry of the adjugate over the
\* determinant, and inverse_matrix applied to out gives the input back.
C18_TrueInverse ==
  mx.out # <<>>
    => /\ MxNear(multiply_matrix(mx.in, mx.out), IDENTITY_MATRIX, 1)
       /\ MxNear(multiply_matrix(mx.out, mx.in), IDENTITY_MATRIX, 1)
       /\ \A i \in 1..3 : \A j \in 1..3 :
            LET d == mx.out[i][j]
                       - RDiv(MxAdjugate(mx.in, i, j) * FP, determinant(mx.in))
            IN  d <= MxTolerance /\ -d <= MxTolerance
       /\ mx.back # <<>> => MxNear(mx.back, mx.in, 2)

\* a matrix that is not symmetric was inverted, and its inverse inverted again
C18_Witness ==
  /\ mx.out # <<>>
  /\ mx.back # <<>>
  /\ mx.in[1][2] # mx.in[2][1]
  /\ mx.in[1][3] # mx.in[3][1]
  /\ mx.out # mx.in

\* C21: the sync-complete signal (vibrate(1), isEMGSynced set) is given by
\* the first handleEMGData invocation made EMG_SYNC_TIME or more after the
\* first one, and only by it; isEMGSynced never goes back to false; before
\* it locked is not toggled, no callback is made and nothing is recorded.
C21_SyncSignalOnce ==
  [][ /\ isEMGSynced => isEMGSynced'
      /\ vibrations' = <<1>> => (op' = "emg" /\ ~isEMGSynced /\ isEMGSynced')
      /\ (op' = "emg" /\ ~isEMGSynced /\ isEMGSynced') => vibrations' = <<1>>
      /\ (op' = "emg" /\ emg_first' # <<>>
            /\ now >= emg_first'[1] + EMG_SYNC_TIME) => isEMGSynced'
      /\ (op' = "emg" /\ emg_first' # <<>> /\ isEMGSynced')
            => now >= emg_first'[1] + EMG_SYNC_TIME
      /\ ~isEMGSynced' => /\ locked' = locked
                          /\ lock_calls' = <<>>
                          /\ gesture_calls' = <<>>
                          /\ pushed' = <<>> ]_vars

\* C22: after every updateCache call emgCache[0] is the vector just handled,
\* emgCache[i] is what emgCache[i-1] was before the call, the window holds
\* the latest min(n, EMG_CACHE_SIZE) vectors handled (zeros beyond them),
\* emgSum is the sum of the absolute values of all its entries, and
\* 0 <= emgSum <= EMG_CACHE_SIZE * 8 * 128.
C22_WindowConsistent ==
  [][ op' = "emg"
        => /\ emgCache'[1] = emg_log'[1]
           /\ \A i \in 2..EMG_CACHE_SIZE : emgCache'[i] = emgCache[i - 1]
           /\ \A i \in 1..EMG_CACHE_SIZE :
                emgCache'[i] = IF i <= Len(emg_log') THEN emg_log'[i] ELSE EmgRest
           /\ emgSum' = SumTo([k \in 1..(8 * EMG_CACHE_SIZE) |->
                                 Abs(emgCache'[(k - 1) \div 8 + 1][((k - 1) % 8) + 1])],
                              8 * EMG_CACHE_SIZE)
           /\ emgSum' >= 0
           /\ emgSum' <= EMG_CACHE_SIZE * 8 * 128 ]_vars

\* a relaxed vector was handled after a tense one: the window holds both,
\* the tense one moved up by one place
C22_Witness ==
  /\ op = "emg"
  /\ Len(emg_log) = EMG_CACHE_SIZE
  /\ emgCache[1] = EmgRest
  /\ emgCache[2] = EmgStrong
  /\ emgSum > 0

\* C23: refresh_init starts true and is set again exactly by an evaluation
\* that finds the ratio at or above the threshold when the evaluation before
\* it (if any) found it below; inverseInitMatrix is overwritten exactly by a
\* handleIMUData invocation that begins with refresh_init true, with the
\* inverse of the orientation of that invocation, and the flag is cleared
\* then; no other invocation of either handler changes it.
C23_RefreshProtocol ==
  /\ refresh_init = TRUE
  /\ [][ /\ op' = "imu"
             => /\ refresh_init' = (/\ evaluated'
                                    /\ ~belowThreshold'
                                    /\ last_eval # <<FALSE>>)
                /\ refresh_init
                     => MxNear(multiply_matrix(
                                 unit_quaternion_to_matrix(OrientationStream[imuPos]),
                                 inverseInitMatrix'),
                               IDENTITY_MATRIX, 1)
                /\ ~refresh_init => inverseInitMatrix' = inverseInitMatrix
         /\ op' # "imu"
             => /\ refresh_init' = refresh_init
                /\ inverseInitMatrix' = inverseInitMatrix ]_vars

\* the invocation after the begin of a pose overwrote the reference with the
\* inverse of its own orientation, and found the pose released
C23_Witness ==
  /\ op = "imu"
  /\ captured
  /\ lock_calls = <<FALSE>>
  /\ ~refresh_init
  /\ inverseInitMatrix # IDENTITY_MATRIX

\* C24: whenever a sample is recorded in a recording that an unlock toggle
\* began, inverseInitMatrix was captured by the invocation that made that
\* toggle or by a later one.
C24_ReferenceFromUnlock ==
  (pushed # <<>> /\ lock_log # <<>>) => ref_fresh

\* C25: a call of processCacheData leaves gesture_cache_offset at 0 whatever
\* label it returns, changes neither the stored points nor
\* gesture_roll_angle, and a call made right after it finds no point (and
\* returns ARM_UNKNOWN).
C25_CursorZeroed ==
  [][ (pc'.label # pc.label \/ pc'.again # pc.again)
        => /\ pc'.offset = 0
           /\ pc'.cells = pc.cells
           /\ pc'.roll = pc.roll
           /\ pc'.label \in GestureType
           /\ pc'.again # "pending"
                => (pc.offset \div 2 = 0 /\ pc'.again = "ARM_UNKNOWN") ]_vars

\* a cache of twenty points was classified as a circle and the call
\* repeated
C25_Witness ==
  /\ pc.label = "ARM_CIRCLE_CW"
  /\ Len(pc.cells) = 40
  /\ pc.again = "ARM_UNKNOWN"
  /\ pc.offset = 0

\* the index (from 0) of the first greatest entry of the n entries of v
FirstGreatest(v, n) ==
  CHOOSE k \in 0..(n - 1) :
    /\ \A i \in 1..n : v[i] <= v[k + 1]
    /\ \A i \in 1..k : v[i] < v[k + 1]

\* C26: for ten or more cached points the scan ends with x_max_index,
\* x_min_index and y_max_index at the first point of greatest x, least x and
\* greatest y, also when no x or no y is positive.
C26_ExtremeIndices ==
  (pc.label # "pending" /\ PcPoints >= GESTURE_CIRCLE_SAMPLES)
    => LET X == PointsX(pc.cells, PcPoints)
           Y == PointsY(pc.cells, PcPoints)
           found == ExtremeIndices(pc.cells, PcPoints)
       IN  /\ found[3] = FirstGreatest(X, PcPoints)
           /\ found[1] = FirstGreatest([i \in 1..PcPoints |-> -X[i]], PcPoints)
           /\ found[2] = FirstGreatest(Y, PcPoints)

\* C27: at most GESTURE_CACHE_SIZE / 2 evaluations in a row find the ratio
\* below the threshold and end with locked false: the next such evaluation
\* discards the recording and locks; with orientation samples arriving, an
\* open recording is followed by a lock or by an evaluation at or above the
\* threshold.
C27_BoundedUnlocked ==
  /\ [](unlocked_run <= GESTURE_CACHE_SIZE \div 2)
  /\ [][ (op' = "imu" /\ evaluated' /\ belowThreshold'
            /\ unlocked_run = GESTURE_CACHE_SIZE \div 2)
           => (discarded' /\ locked' /\ lock_calls' = <<TRUE>>
                 /\ gesture_cache_offset' = 0) ]_vars
  /\ (~locked /\ EvaluationEnabled(isEMGSynced, timeConnected, now))
       ~> (locked \/ (op = "imu" /\ evaluated /\ ~belowThreshold))

\* the evaluation after GESTURE_CACHE_SIZE / 2 unlocked ones below the
\* threshold has discarded the recording and locked
C27_Witness ==
  /\ op = "imu" /\ evaluated /\ belowThreshold
  /\ unlocked_run = 0
  /\ pushes_since_empty = 0
  /\ discarded
  /\ locked

\* the indices of gesture_cache that updateGestureCache() writes with the
\* cursor at offset (lines 72-76)
CacheWriteIndices(offset) ==
  IF offset < GESTURE_CACHE_SIZE THEN {offset, offset + 1} ELSE {}

\* the indices of gesture_cache that processCacheData() reads with the
\* cursor at offset: the sample points and the end points of the circle
\* test (lines 114-115, 124, 185-186), every point of the statistics (lines
\* 224-228) and the last point of the straight test (line 257).  A call
\* that returns from the circle test or the rotation test reads a subset.
CacheReadIndices(offset) ==
  LET num_points   == offset \div 2
      index_offset == num_points \div GESTURE_CIRCLE_SAMPLES
      all          == UNION {{2 * i, 2 * i + 1} : i \in 0..(num_points - 1)}
      last         == {2 * num_points - 2, 2 * num_points - 1}
  IN  (IF index_offset >= 1
       THEN UNION {{2 * j * index_offset, 2 * j * index_offset + 1} :
                     j \in 0..(GESTURE_CIRCLE_SAMPLES - 1)}
              \cup {0, 1} \cup last
       ELSE {})
      \cup all \cup last

\* the indices of the array gesture_cache (line 19)
CacheIndices == 0..(GESTURE_CACHE_SIZE - 1)

\* C28: the cursor stays even and within 0..GESTURE_CACHE_SIZE, so that
\* updateGestureCache writes inside the array, and a processCacheData
\* call made by handleIMUData finds at least one point in the cache and
\* reads inside the array only.
C28_CacheIndicesInRange ==
  /\ gesture_cache_offset \in 0..GESTURE_CACHE_SIZE
  /\ gesture_cache_offset % 2 = 0
  /\ CacheWriteIndices(gesture_cache_offset) \subseteq CacheIndices
  /\ classified # "none"
       => /\ Len(classifiedPts) >= 2
          /\ CacheReadIndices(Len(classifiedPts)) \subseteq CacheIndices

\* C29 (as stated): the invocation that classifies stays unlocked and
\* pushes its own sample into the zeroed cache; a lock toggled by the
\* release of a pose that had been seen (lock_toggle false) finds the cache
\* non-empty and leaves it as it is; an unlock leaves nothing in the cache
\* but the sample of its own invocation, and a classification after an
\* unlock sees the samples handled since that unlock and no others.
C29_LeftoverAsStated ==
  [][ /\ classified' # "none"
           => (~locked' /\ pushed' # <<>> /\ gesture_cache_offset' = 2)
      /\ (lock_calls' = <<TRUE>> /\ ~lock_toggle)
           => /\ gesture_cache_offset' >= 2
              /\ UNCHANGED <<gesture_cache, gesture_cache_offset, gesture_roll_angle>>
      /\ lock_calls' = <<FALSE>>
           => (pushes_since_empty' = 1 /\ gesture_cache_offset' = 2)
      /\ (classified' # "none" /\ since_unlock.open)
           => classifiedPts' = since_unlock.pts ]_vars

\* C29 (amended): as above, but the lock toggled by the release of a pose
\* leaves the cache as it is only when the cache is not full; when the pose
\* was held until the cache filled up, the locking invocation discards the
\* leftover samples itself and the cache is empty at the lock.
C29_Leftover ==
  [][ /\ classified' # "none"
           => (~locked' /\ pushed' # <<>> /\ gesture_cache_offset' = 2)
      /\ (lock_calls' = <<TRUE>> /\ ~lock_toggle)
           => /\ gesture_cache_offset >= 2
              /\ IF gesture_cache_offset = GESTURE_CACHE_SIZE
                 THEN discarded' /\ gesture_cache_offset' = 0 /\ gesture_roll_angle' = 0
                 ELSE /\ ~discarded'
                      /\ UNCHANGED <<gesture_cache, gesture_cache_offset,
                                     gesture_roll_angle>>
      /\ lock_calls' = <<FALSE>>
           => (pushes_since_empty' = 1 /\ gesture_cache_offset' = 2)
      /\ (classified' # "none" /\ since_unlock.open)
           => classifiedPts' = since_unlock.pts ]_vars

\* the release of the pose has locked the controller with two or more
\* samples recorded after the classification still in the cache, after an
\* unlock made earlier
C29_Witness ==
  /\ op = "imu" /\ lock_calls = <<TRUE>> /\ ~discarded
  /\ locked
  /\ lock_log = <<FALSE, TRUE>>
  /\ gesture_cache_offset >= 4

\* C30: an invocation of handleIMUData that evaluates the ratio
\* emgSum / emgSync (line 102) finds emgSync greater than 0.
C30_SyncPositive ==
  (op = "imu" /\ evaluated) => emgSync > 0

====
